---- MODULE Spec2Model ----
(***************************************************************************)
(* A model of scratch-storage's resolution core: the ScratchStorage        *)
(* coordinator (ScratchStorage.js) and the FirebaseHelper remote helper.   *)
(* JavaScript runs to completion: while a synchronous segment of a call is *)
(* executing (pc = "run") no other action is enabled; between segments     *)
(* (a promise is pending) registrations and backend answers interleave.    *)
(***************************************************************************)
EXTENDS Integers, Sequences, FiniteSets, TLC

\* ---------------------------------------------------------------- bounds
MaxRegistrations == 2   \* helpers and StoreRecords registered in one behaviour

\* ------------------------------------------------------------ value sets
AssetTypes == {"Project", "ImageVector"}
StoreTypeSets == {{"ImageVector"}, {"Project", "ImageVector"}}
AssetIds == {"a", "b"}
NoId == ""                         \* '' / null / undefined asset id
NoFormat == "none"                 \* dataFormat argument omitted
DataFormats == {"png"}
Bytes == {"b1"}                    \* payloads a backend holds
Data == {"d1", "d2"}               \* payloads a caller stores
HelperBytes == "hb"                \* payload an added helper answers with
NoData == "nodata"                 \* an Asset constructed without data
Priorities == {-200, 200}          \* priorities passed to addHelper
\* addHelper's priority argument: omitted (<<>>) or given (<<priority>>)
PriorityArguments == {<<>>} \cup {<<priority>> : priority \in Priorities}

\* What a backend handle answers to getBytes: bytes, not-found or an error.
NotFound == "notfound"
TransportError == "error"
Backends == Bytes \cup {NotFound, TransportError}

\* What an added helper's load does: returns the null sentinel, or a
\* promise that resolves to an Asset, resolves to null, rejects with an
\* Error, or rejects with a falsy reason (undefined, 0, '').
Behaviours == {"sentinel", "asset", "null", "reject", "rejectFalsy"}

\* Values passed to tryNextHelper / rejection reasons.
NoArg == [kind |-> "undefined", id |-> 0]          \* tryNextHelper()
FalsyReason == [kind |-> "falsy", id |-> 0]
TypeError == [kind |-> "TypeError", id |-> 0]
HelperError(h) == [kind |-> "error", id |-> h.id]
Truthy(v) == v.kind \notin {"undefined", "falsy"}

\* AssetType.runtimeFormat
runtimeFormat(assetType) == IF assetType = "Project" THEN "json" ELSE "svg"

\* dataFormat = dataFormat || assetType.runtimeFormat
DefaultFormat(dataFormat, assetType) ==
    IF dataFormat = NoFormat THEN runtimeFormat(assetType) ELSE dataFormat

\* new Asset(assetType, assetId, dataFormat, data)
Asset(assetType, assetId, dataFormat, data) ==
    [assetType |-> assetType, assetId |-> assetId, dataFormat |-> dataFormat,
     data |-> data]

NoAsset == Asset("none", NoId, NoFormat, NoData)

VARIABLES
    helpers,    \* ScratchStorage._helpers: <<[helper, priority]>>
    stores,     \* FirebaseHelper.stores: <<StoreRecord>>
    assets,     \* BuiltinHelper's cache: asset id -> Asset or NoAsset
    ld,         \* the load call in progress (closure of ScratchStorage.load)
    fb,         \* the FirebaseHelper.load closure of that call
    st,         \* the store call in progress (ScratchStorage.store)
    ft,         \* the transport's request in progress (FetchTool.get / send)
    invoked,    \* history: the helpers whose load the call has invoked, in
                \* order, each with what its load returned
    nAdded      \* history: number of addHelper calls so far

vars == <<helpers, stores, assets, ld, fb, st, ft, invoked, nAdded>>

builtinHelper == [name |-> "builtin", id |-> 0, beh |-> "code"]
firebaseHelper == [name |-> "firebase", id |-> 0, beh |-> "code"]
CustomHelper(n, beh) == [name |-> "custom", id |-> n, beh |-> beh]

\* outcome of a call: kind is "none" (not settled), "asset", "null",
\* "rejectedList" (errors), "rejected" (reason) or "threw" (reason)
Outcome(kind, asset, errors, reason) ==
    [kind |-> kind, asset |-> asset, errors |-> errors, reason |-> reason]
NoOutcome == Outcome("none", NoAsset, <<>>, NoArg)

\* a helper's load result: the sentinel null, undefined, or a promise
Loading(kind, asset, reason) == [kind |-> kind, asset |-> asset, reason |-> reason]
NoLoading == Loading("none", NoAsset, NoArg)

IdleLoad ==
    [pc |-> "idle", assetType |-> "none", assetId |-> NoId, dataFormat |-> NoFormat,
     helpers |-> <<>>, helperIndex |-> 0, errors |-> <<>>, err |-> NoArg,
     returned |-> FALSE, loading |-> NoLoading, outcome |-> NoOutcome,
     nStores |-> 0]     \* history: the stores registered when load was called

\* reasons a store call fails with
NoAppropriateStores == [kind |-> "NoAppropriateStores", id |-> 0]
UploadError == [kind |-> "UploadError", id |-> 0]
CacheError == [kind |-> "CacheError", id |-> 0]

\* a promise of a store call (the one FirebaseHelper.store returned, the one
\* ScratchStorage.store returned): pending, resolved with the metadata body
\* (its id) or rejected with a reason
Pending(kind, id, reason) == [kind |-> kind, id |-> id, reason |-> reason]
NoPending == Pending("none", NoId, NoArg)

IdleStore ==
    [pc |-> "idle", assetType |-> "none", dataFormat |-> NoFormat, data |-> NoData,
     assetId |-> NoId, selected |-> <<>>, uploads |-> 0, pending |-> NoPending,
     outcome |-> Pending("none", NoId, NoArg)]

\* HTTP statuses and bodies a response carries
Statuses ==
    (200..204) \cup {299, 300, 301, 304, 400, 401, 403, 404, 405, 410, 500, 502, 503}
Bodies == {"successText", "", "{}"}
NoBody == "null"                   \* the null the transport resolves with

\* a settled transport promise: resolved with a body (or null), or rejected
\* with the numeric status
Fetched(kind, body, status) == [kind |-> kind, body |-> body, status |-> status]
NoFetched == Fetched("none", NoBody, 0)

IdleFetch ==
    [pc |-> "idle", method |-> "none", status |-> 0, body |-> NoBody,
     result |-> NoFetched]

IdleFirebase ==
    [state |-> "none", stores |-> <<>>, storeIndex |-> 0, errors |-> <<>>,
     data |-> NoData, fetched |-> <<>>]

\* ScratchStorage.constructor
Init ==
    /\ helpers = << [helper |-> builtinHelper, priority |-> 100],
                    [helper |-> firebaseHelper, priority |-> -100] >>
    /\ stores = <<>>
    /\ assets = [i \in AssetIds |-> NoAsset]
    /\ ld = IdleLoad
    /\ fb = IdleFirebase
    /\ st = IdleStore
    /\ ft = IdleFetch
    /\ invoked = <<>>
    /\ nAdded = 0

\* No JavaScript of a call is executing: another task may run.
Quiescent == ld.pc # "run"

\* No load or store request is in progress: requests are made one at a time,
\* and ld, fb, st and invoked describe the latest request only.
NoRequest ==
    /\ ld.pc \in {"idle", "done"}
    /\ fb.state # "fetching"
    /\ st.pc \in {"idle", "done"}

\* ------------------------------------------------------------- addHelper
\* Array.prototype.sort with (a, b) => b.priority - a.priority: a stable
\* sort, descending by priority (insertion sort, equal keys keep order).
RECURSIVE InsertByPriority(_, _)
InsertByPriority(sorted, e) ==
    IF sorted = <<>> THEN <<e>>
    ELSE IF e.priority - Head(sorted).priority > 0
         THEN <<e>> \o sorted
         ELSE <<Head(sorted)>> \o InsertByPriority(Tail(sorted), e)

\* faulty variant of SortByPriority: the list is left in insertion order
SortByPriority_Unsorted(s) == s

RECURSIVE SortByPriority(_)
SortByPriority(s) ==
    IF s = <<>> THEN <<>>
    ELSE InsertByPriority(SortByPriority(SubSeq(s, 1, Len(s) - 1)), s[Len(s)])

\* faulty variant of DefaultPriority: an omitted priority sorts last
DefaultPriority_Lowest(priority) ==
    IF priority = <<>> THEN -200 ELSE priority[1]

\* the default parameter value, priority = 0
DefaultPriority(priority) ==
    IF priority = <<>> THEN 0 ELSE priority[1]

\* addHelper(helper, priority = 0)
addHelper(beh, priority) ==
    /\ Quiescent
    /\ nAdded + Len(stores) < MaxRegistrations
    /\ nAdded' = nAdded + 1
    /\ helpers' = SortByPriority(
                     Append(helpers, [helper |-> CustomHelper(nAdded + 1, beh),
                                      priority |-> DefaultPriority(priority)]))
    /\ UNCHANGED <<ft, stores, assets, ld, fb, st, invoked>>

\* ---------------------------------------------------------------- stores
StoreRecord(types, create, update, storageReference) ==
    [types |-> types, create |-> create, update |-> update,
     storageReference |-> storageReference]

\* FirebaseHelper.addStore: the record carries types and the reference only
addStore(types, firebaseStorageReference) ==
    /\ Quiescent
    /\ nAdded + Len(stores) < MaxRegistrations
    /\ stores' = Append(stores, StoreRecord(types, FALSE, FALSE, firebaseStorageReference))
    /\ UNCHANGED <<ft, helpers, assets, ld, fb, st, invoked, nAdded>>

\* ----------------------------------------------------------------- cache
\* BuiltinHelper.get
get(assetId) == assets[assetId]

\* BuiltinHelper._store: writes the Asset under the id
BuiltinStore(assetType, dataFormat, data, id) ==
    [assets EXCEPT ![id] = Asset(assetType, id, dataFormat, data)]

\* ScratchStorage.cache (deprecated): builtinHelper._store
cache(assetType, dataFormat, data, id) ==
    /\ Quiescent
    /\ assets' = BuiltinStore(assetType, dataFormat, data, id)
    /\ UNCHANGED <<ft, helpers, stores, ld, fb, st, invoked, nAdded>>

\* ------------------------------------------------------- Helper.load
Sentinel == Loading("null", NoAsset, NoArg)              \* return null
Undefined == Loading("undefined", NoAsset, NoArg)        \* return undefined
Resolved(asset) == Loading("resolved", asset, NoArg)     \* Promise.resolve(asset)
ResolvedNull == Loading("resolvedNull", NoAsset, NoArg)  \* Promise.resolve(null)
Rejected(reason) == Loading("rejected", NoAsset, reason) \* Promise.reject(reason)
IsPromise(loading) == loading.kind \in {"resolved", "resolvedNull", "rejected"}

\* BuiltinHelper.load: the sentinel on a cache miss, else a promise of the
\* cached Asset
BuiltinLoad(assetType, assetId, dataFormat) ==
    IF get(assetId) = NoAsset THEN Sentinel ELSE Resolved(get(assetId))

\* the load of a helper registered with addHelper
CustomLoad(helper, assetType, assetId, dataFormat) ==
    CASE helper.beh = "sentinel" -> Sentinel
      [] helper.beh = "asset" ->
            Resolved(Asset(assetType, assetId, dataFormat, HelperBytes))
      [] helper.beh = "null" -> ResolvedNull
      [] helper.beh = "reject" -> Rejected(HelperError(helper))
      [] helper.beh = "rejectFalsy" -> Rejected(FalsyReason)

\* Promise.reject(errors): the reason is the errors array
ListReason(errors) == [kind |-> "list", id |-> Len(errors)]

\* FirebaseHelper.load's tryNextSource on closure f with argument err:
\* what it returns and the closure afterwards
tryNextSource(f, err) ==
    LET errors == IF Truthy(err) THEN Append(f.errors, err) ELSE f.errors
    IN  IF f.storeIndex > Len(f.stores)
        THEN [ret |-> Rejected(ListReason(errors)),
              fb |-> [f EXCEPT !.errors = errors, !.state = "ended",
                               !.storeIndex = f.storeIndex + 1]]
        ELSE \* getBytes(assetRef).then(...) is started, nothing is returned
             [ret |-> Undefined,
              fb |-> [f EXCEPT !.errors = errors, !.state = "fetching",
                               !.storeIndex = f.storeIndex + 1,
                               !.fetched = Append(f.fetched, f.stores[f.storeIndex])]]

\* FirebaseHelper.load
FirebaseLoad(assetType, assetId, dataFormat) ==
    LET candidates == SelectSeq(stores, LAMBDA store: assetType \in store.types)
        f == [state |-> "none", stores |-> candidates, storeIndex |-> 1,
              errors |-> <<>>, data |-> NoData, fetched |-> <<>>]
    IN  IF assetType = "Project"
        THEN [ret |-> Undefined, fb |-> f]
        ELSE tryNextSource(f, NoArg)

\* helper.load(assetType, assetId, dataFormat): the value returned and the
\* remote helper's closure afterwards
HelperLoad(helper, assetType, assetId, dataFormat) ==
    CASE helper.name = "builtin" ->
            [ret |-> BuiltinLoad(assetType, assetId, dataFormat), fb |-> fb]
      [] helper.name = "firebase" -> FirebaseLoad(assetType, assetId, dataFormat)
      [] helper.name = "custom" ->
            [ret |-> CustomLoad(helper, assetType, assetId, dataFormat), fb |-> fb]

\* ----------------------------------------------------- ScratchStorage.load
\* load: the snapshot of the helpers, then tryNextHelper()
load(assetType, assetId, dataFormat) ==
    /\ NoRequest
    /\ ld' = [IdleLoad EXCEPT
                !.pc = "run",
                !.assetType = assetType,
                !.assetId = assetId,
                !.dataFormat = DefaultFormat(dataFormat, assetType),
                !.helpers = [i \in 1..Len(helpers) |-> helpers[i].helper],
                !.helperIndex = 1,
                !.nStores = Len(stores)]
    /\ fb' = IdleFirebase
    /\ st' = IdleStore
    /\ invoked' = <<>>
    /\ UNCHANGED <<ft, helpers, stores, assets, nAdded>>

\* a TypeError raised in tryNextHelper: thrown to load's caller while load
\* has not returned, else the rejection of the promise load returned
Raise(l, reason) ==
    [l EXCEPT !.pc = "done", !.err = NoArg,
              !.outcome = Outcome(IF l.returned THEN "rejected" ELSE "threw",
                                  NoAsset, <<>>, reason)]

\* faulty variant of HelpersOf: the coordinator's live list is read
HelpersOf_LiveList(l) == [i \in 1..Len(helpers) |-> helpers[i].helper]

\* the helpers constant of load's closure
HelpersOf(l) == l.helpers

tryNextHelper ==
    /\ ld.pc = "run"
    /\ LET errors == IF Truthy(ld.err) THEN Append(ld.errors, ld.err) ELSE ld.errors
           l == [ld EXCEPT !.errors = errors, !.err = NoArg,
                           !.helperIndex = ld.helperIndex + 1]
       IN  IF ld.helperIndex <= Len(HelpersOf(ld))
           THEN LET helper == HelpersOf(ld)[ld.helperIndex]
                    r == HelperLoad(helper, ld.assetType, ld.assetId, ld.dataFormat)
                IN  /\ invoked' = Append(invoked, [helper |-> helper, ret |-> r.ret])
                    /\ fb' = r.fb
                    /\ ld' = CASE r.ret = Sentinel -> l
                               [] IsPromise(r.ret) ->
                                    [l EXCEPT !.pc = "wait", !.returned = TRUE,
                                              !.loading = r.ret]
                               [] OTHER -> Raise(l, TypeError)
           ELSE /\ ld' = [l EXCEPT
                            !.pc = "done",
                            !.outcome = IF Len(errors) > 0
                                        THEN Outcome("rejectedList", NoAsset, errors, NoArg)
                                        ELSE Outcome("null", NoAsset, <<>>, NoArg)]
                /\ UNCHANGED <<fb, invoked>>
    /\ UNCHANGED <<ft, helpers, stores, assets, st, nAdded>>

\* faulty variant of loadingSettles: a fulfilment after recorded errors
\* still rejects with the errors
loadingSettles_RejectAfterErrors ==
    /\ ld.pc = "wait"
    /\ ld' = CASE ld.loading.kind = "resolved" ->
                    [ld EXCEPT !.pc = "done", !.loading = NoLoading,
                               !.outcome = IF Len(ld.errors) > 0
                                           THEN Outcome("rejectedList", NoAsset, ld.errors, NoArg)
                                           ELSE Outcome("asset", ld.loading.asset, <<>>, NoArg)]
               [] ld.loading.kind = "resolvedNull" ->
                    [ld EXCEPT !.pc = "done", !.loading = NoLoading,
                               !.outcome = Outcome("null", NoAsset, <<>>, NoArg)]
               [] ld.loading.kind = "rejected" ->
                    [ld EXCEPT !.pc = "run", !.loading = NoLoading,
                               !.err = ld.loading.reason]
    /\ UNCHANGED <<ft, helpers, stores, assets, fb, st, invoked, nAdded>>

\* the promise a helper returned settles: loading.catch(tryNextHelper)
loadingSettles ==
    /\ ld.pc = "wait"
    /\ ld' = CASE ld.loading.kind = "resolved" ->
                    [ld EXCEPT !.pc = "done", !.loading = NoLoading,
                               !.outcome = Outcome("asset", ld.loading.asset, <<>>, NoArg)]
               [] ld.loading.kind = "resolvedNull" ->
                    [ld EXCEPT !.pc = "done", !.loading = NoLoading,
                               !.outcome = Outcome("null", NoAsset, <<>>, NoArg)]
               [] ld.loading.kind = "rejected" ->
                    [ld EXCEPT !.pc = "run", !.loading = NoLoading,
                               !.err = ld.loading.reason]
    /\ UNCHANGED <<ft, helpers, stores, assets, fb, st, invoked, nAdded>>

\* getBytes(assetRef) resolves: the .then callback of tryNextSource
getBytesThen ==
    /\ Quiescent
    /\ fb.state = "fetching"
    /\ LET store == fb.stores[fb.storeIndex - 1]
           buffer == store.storageReference
       IN  /\ buffer # TransportError
           /\ fb' = IF buffer \in Bytes
                    THEN [fb EXCEPT !.data = buffer, !.state = "got"]
                    ELSE tryNextSource(fb, NoArg).fb
    /\ UNCHANGED <<ft, helpers, stores, assets, ld, st, invoked, nAdded>>

\* getBytes(assetRef) rejects: no rejection handler is attached
getBytesRejected ==
    /\ Quiescent
    /\ fb.state = "fetching"
    /\ fb.stores[fb.storeIndex - 1].storageReference = TransportError
    /\ fb' = [fb EXCEPT !.state = "ended"]
    /\ UNCHANGED <<ft, helpers, stores, assets, ld, st, invoked, nAdded>>

\* StoreRecords with create / update capability (the StoreRecord typedef):
\* written into the helper's public stores list
pushStoreRecord(types, create, update, storageReference) ==
    /\ Quiescent
    /\ nAdded + Len(stores) < MaxRegistrations
    /\ stores' = Append(stores, StoreRecord(types, create, update, storageReference))
    /\ UNCHANGED <<ft, helpers, assets, ld, fb, st, invoked, nAdded>>

\* ---------------------------------------------------- FirebaseHelper.store
\* the stores FirebaseHelper.store's filter keeps, in registration order
AppropriateStores(assetType, assetId) ==
    LET create == assetId = NoId
    IN  SelectSeq(stores, LAMBDA s :
            /\ assetType \in s.types
            /\ ((create /\ s.create) \/ s.update))

\* faulty variant of FirebaseStore: the Project carve-out is missing and the
\* upload is issued
FirebaseStore_NoProjectCheck(assetType, dataFormat, data, assetId) ==
    LET appropriate == AppropriateStores(assetType, assetId)
    IN  IF appropriate = <<>>
        THEN [ret |-> Pending("rejected", NoId, NoAppropriateStores),
              selected |-> <<>>, uploads |-> 0]
        ELSE [ret |-> Pending("pending", NoId, NoArg),
              selected |-> <<Head(appropriate)>>, uploads |-> 1]

\* FirebaseHelper.store: what it returns, the store it selected and the
\* number of uploadBytes calls it issued
FirebaseStore(assetType, dataFormat, data, assetId) ==
    LET appropriate == AppropriateStores(assetType, assetId)
    IN  IF appropriate = <<>>
        THEN [ret |-> Pending("rejected", NoId, NoAppropriateStores),
              selected |-> <<>>, uploads |-> 0]
        ELSE IF assetType = "Project"
        THEN [ret |-> Pending("undefined", NoId, NoArg),
              selected |-> <<Head(appropriate)>>, uploads |-> 0]
        ELSE [ret |-> Pending("pending", NoId, NoArg),
              selected |-> <<Head(appropriate)>>, uploads |-> 1]

\* ---------------------------------------------------- ScratchStorage.store
\* store: the Promise executor calls firebaseHelper.store(...).then(...); a
\* TypeError of .then on undefined rejects the promise under construction
store(assetType, dataFormat, data, assetId) ==
    /\ NoRequest
    /\ LET format == DefaultFormat(dataFormat, assetType)
           r == FirebaseStore(assetType, format, data, assetId)
       IN  st' = [IdleStore EXCEPT
                    !.assetType = assetType,
                    !.dataFormat = format,
                    !.data = data,
                    !.assetId = assetId,
                    !.selected = r.selected,
                    !.uploads = r.uploads,
                    !.pending = r.ret,
                    !.pc = CASE r.ret.kind = "undefined" -> "done"
                             [] r.ret.kind = "pending" -> "upload"
                             [] r.ret.kind = "rejected" -> "wait",
                    !.outcome = IF r.ret.kind = "undefined"
                                THEN Pending("rejected", NoId, TypeError)
                                ELSE NoPending]
    /\ ld' = IdleLoad
    /\ fb' = IdleFirebase
    /\ invoked' = <<>>
    /\ UNCHANGED <<ft, helpers, stores, assets, nAdded>>

\* uploadBytes(assetRef, data) resolves with metadata carrying an id
uploadBytesResolves(id) ==
    /\ Quiescent
    /\ st.pc = "upload"
    /\ st' = [st EXCEPT !.pc = "wait", !.pending = Pending("resolved", id, NoArg)]
    /\ UNCHANGED <<ft, helpers, stores, assets, ld, fb, invoked, nAdded>>

\* uploadBytes(assetRef, data) rejects
uploadBytesRejects ==
    /\ Quiescent
    /\ st.pc = "upload"
    /\ st' = [st EXCEPT !.pc = "wait", !.pending = Pending("rejected", NoId, UploadError)]
    /\ UNCHANGED <<ft, helpers, stores, assets, ld, fb, invoked, nAdded>>

\* faulty variant of storeThen: the written bytes are mirrored under the
\* request's assetId, not under the id of the returned metadata
storeThen_MirrorUnderAssetId(throws) ==
    /\ Quiescent
    /\ st.pc = "wait"
    /\ st.pending.kind = "resolved"
    /\ IF throws
       THEN /\ st' = [st EXCEPT !.pc = "done",
                                !.outcome = Pending("rejected", NoId, CacheError)]
            /\ UNCHANGED assets
       ELSE /\ assets' = IF st.assetId = NoId THEN assets
                         ELSE BuiltinStore(st.assetType, st.dataFormat, st.data, st.assetId)
            /\ st' = [st EXCEPT !.pc = "done",
                                !.outcome = Pending("resolved", st.pending.id, NoArg)]
    /\ UNCHANGED <<ft, helpers, stores, ld, fb, invoked, nAdded>>

\* .then(body => { builtinHelper._store(..., body.id); return resolve(body); })
\* followed by .catch(error => reject(error)) when _store throws
storeThen(throws) ==
    /\ Quiescent
    /\ st.pc = "wait"
    /\ st.pending.kind = "resolved"
    /\ IF throws
       THEN /\ st' = [st EXCEPT !.pc = "done",
                                !.outcome = Pending("rejected", NoId, CacheError)]
            /\ UNCHANGED assets
       ELSE /\ assets' = BuiltinStore(st.assetType, st.dataFormat, st.data, st.pending.id)
            /\ st' = [st EXCEPT !.pc = "done",
                                !.outcome = Pending("resolved", st.pending.id, NoArg)]
    /\ UNCHANGED <<ft, helpers, stores, ld, fb, invoked, nAdded>>

\* faulty variant of storeCatch: the data is mirrored into the built-in cache
\* although the remote write was rejected
storeCatch_MirrorsAnyway ==
    /\ Quiescent
    /\ st.pc = "wait"
    /\ st.pending.kind = "rejected"
    /\ st' = [st EXCEPT !.pc = "done",
                        !.outcome = Pending("rejected", NoId, st.pending.reason)]
    /\ assets' = BuiltinStore(st.assetType, st.dataFormat, st.data, "a")
    /\ UNCHANGED <<ft, helpers, stores, ld, fb, invoked, nAdded>>

\* .catch(error => reject(error)) on a rejection of firebaseHelper.store
storeCatch ==
    /\ Quiescent
    /\ st.pc = "wait"
    /\ st.pending.kind = "rejected"
    /\ st' = [st EXCEPT !.pc = "done",
                        !.outcome = Pending("rejected", NoId, st.pending.reason)]
    /\ UNCHANGED <<ft, helpers, stores, assets, ld, fb, invoked, nAdded>>

\* ------------------------------------------------------------- transport
\* response.ok: a 2xx status
ok(status) == status \in 200..299

\* faulty variant of FetchToolGet: a 404 is rejected like any other status
FetchToolGet_NotFoundRejects(status, body) ==
    IF ok(status) THEN Fetched("resolved", body, status)
    ELSE Fetched("rejected", NoBody, status)

\* the transport's get: the body on 2xx, null on 404, else a rejection with
\* the status
FetchToolGet(status, body) ==
    IF ok(status) THEN Fetched("resolved", body, status)
    ELSE IF status = 404 THEN Fetched("resolved", NoBody, status)
    ELSE Fetched("rejected", NoBody, status)

\* the transport's send (text variant): the same status semantics as get
FetchToolSend(status, body) ==
    IF ok(status) THEN Fetched("resolved", body, status)
    ELSE IF status = 404 THEN Fetched("resolved", NoBody, status)
    ELSE Fetched("rejected", NoBody, status)

\* tool.get(request) / tool.send(request): the request is issued
fetchRequest(method) ==
    /\ ft.pc \in {"idle", "settled"}
    /\ ft' = [IdleFetch EXCEPT !.pc = "pending", !.method = method]
    /\ UNCHANGED <<helpers, stores, assets, ld, fb, st, invoked, nAdded>>

\* the response arrives and the transport's promise settles
fetchResponse(status, body) ==
    /\ ft.pc = "pending"
    /\ ft' = [ft EXCEPT !.pc = "settled", !.status = status, !.body = body,
                        !.result = IF ft.method = "get"
                                   THEN FetchToolGet(status, body)
                                   ELSE FetchToolSend(status, body)]
    /\ UNCHANGED <<helpers, stores, assets, ld, fb, st, invoked, nAdded>>

\* the capabilities a StoreRecord may declare beyond those of addStore
Capabilities ==
    {c \in [create : BOOLEAN, update : BOOLEAN] : c.create \/ c.update}

\* ------------------------------------------------------- specifications
Loads ==
    \/ \E t \in AssetTypes, i \in AssetIds, f \in DataFormats \cup {NoFormat} :
            load(t, i, f)
    \/ tryNextHelper
    \/ loadingSettles
    \/ getBytesThen
    \/ getBytesRejected

\* loading through any registered helpers and stores
Next ==
    \/ \E beh \in Behaviours, priority \in PriorityArguments : addHelper(beh, priority)
    \/ \E types \in StoreTypeSets, ref \in Backends : addStore(types, ref)
    \/ cache("ImageVector", "png", "b1", "a")
    \/ Loads

Spec == Init /\ [][Next]_vars

\* storing and loading with the default helpers
StoreNext ==
    \/ \E types \in StoreTypeSets : addStore(types, "b1")
    \/ \E types \in StoreTypeSets, caps \in Capabilities :
            pushStoreRecord(types, caps.create, caps.update, "b1")
    \/ \E t \in AssetTypes, d \in Data, i \in AssetIds \cup {NoId} :
            store(t, NoFormat, d, i)
    \/ \E id \in AssetIds : uploadBytesResolves(id)
    \/ uploadBytesRejects
    \/ \E throws \in BOOLEAN : storeThen(throws)
    \/ storeCatch
    \/ \E t \in AssetTypes, i \in AssetIds : load(t, i, NoFormat)
    \/ tryNextHelper
    \/ loadingSettles
    \/ getBytesThen

StoreSpec == Init /\ [][StoreNext]_vars

\* the transport on its own
FetchNext ==
    \/ \E method \in {"get", "send"} : fetchRequest(method)
    \/ \E status \in Statuses, body \in Bodies : fetchResponse(status, body)

FetchSpec == Init /\ [][FetchNext]_vars

\* ---------------------------------------------------------------- claims
\* the priority a helper was registered with
PriorityOf(helper) ==
    (CHOOSE e \in {helpers[i] : i \in DOMAIN helpers} : e.helper = helper).priority

\* the latest load has settled (resolved, rejected or thrown)
LoadDone == ld.pc = "done"

\* the latest load ran with the default helpers only
DefaultHelpers == ld.helpers = <<builtinHelper, firebaseHelper>>

\* the latest load consulted the remote helper
RemoteConsulted == \E i \in DOMAIN invoked : invoked[i].helper = firebaseHelper

\* C1: with the default helpers, a non-Project load that misses the built-in
\* cache and finds one registered store for the type, whose byte fetch
\* answers bytes B, resolves to an Asset with payload B.
C1_RemoteBytesResolveLoad ==
    ( /\ LoadDone
      /\ DefaultHelpers
      /\ ld.assetType # "Project"
      /\ RemoteConsulted
      /\ Len(fb.stores) = 1
      /\ fb.stores[1].storageReference \in Bytes )
    => /\ ld.outcome.kind = "asset"
       /\ ld.outcome.asset.data = fb.stores[1].storageReference

\* C2 (as stated): one load invokes the helpers in strictly descending
\* priority order, and invokes none after one whose load succeeded.
C2_StrictlyDescending ==
    /\ \A i, j \in DOMAIN invoked :
          i < j => PriorityOf(invoked[i].helper) > PriorityOf(invoked[j].helper)
    /\ \A i \in DOMAIN invoked : i < Len(invoked) => invoked[i].ret.kind # "resolved"

\* C2 (amended): one load invokes the helpers in the order of its snapshot
\* of the list, which is non-increasing in priority (strictly descending
\* between helpers of different priorities), and invokes none after one
\* whose load succeeded with an Asset.
C2_DescendingShortCircuit ==
    /\ \A i \in DOMAIN invoked : invoked[i].helper = ld.helpers[i]
    /\ \A i, j \in DOMAIN invoked :
          i < j => PriorityOf(invoked[i].helper) >= PriorityOf(invoked[j].helper)
    /\ \A i \in DOMAIN invoked : i < Len(invoked) => invoked[i].ret.kind # "resolved"

\* a load that a helper ended with an Asset while lower-priority helpers,
\* one of them after an equal-priority one, were left uninvoked
C2_Witness ==
    /\ LoadDone
    /\ ld.outcome.kind = "asset"
    /\ Len(invoked) >= 2
    /\ Len(invoked) < Len(ld.helpers)
    /\ invoked[Len(invoked)].helper.name = "custom"

\* what a consulted helper reported is not-found: the built-in helper's
\* sentinel, an added helper's sentinel or null, the remote helper with no
\* matching store or with matching stores that all answer not-found
ReportsNotFound(i) ==
    CASE invoked[i].helper.name = "builtin" -> invoked[i].ret = Sentinel
      [] invoked[i].helper.name = "custom" ->
            invoked[i].helper.beh \in {"sentinel", "null"}
      [] invoked[i].helper.name = "firebase" ->
            /\ ld.assetType # "Project"
            /\ \A k \in DOMAIN fb.stores : fb.stores[k].storageReference = NotFound

\* C3: a load whose consulted helpers all report not-found, none an error,
\* resolves to null and never rejects.
C3_NotFoundResolvesNull ==
    (LoadDone /\ \A i \in DOMAIN invoked : ReportsNotFound(i))
    => ld.outcome.kind = "null"

\* the rejection reasons of the helpers whose load promise rejected, in the
\* order the helpers were attempted
RECURSIVE Rejections(_)
Rejections(inv) ==
    IF inv = <<>> THEN <<>>
    ELSE Rejections(SubSeq(inv, 1, Len(inv) - 1)) \o
         (IF inv[Len(inv)].ret.kind = "rejected"
          THEN <<inv[Len(inv)].ret.reason>> ELSE <<>>)

\* the load attempted every helper of its list and none succeeded
Exhausted == LoadDone /\ ld.helperIndex = Len(ld.helpers) + 2

\* C4: a load in which at least one helper's promise rejected and no helper
\* succeeded rejects with exactly the rejection reasons of the rejecting
\* helpers, one each, in attempt order, whatever the reason values.
C4_RejectsWithEveryReason ==
    (Exhausted /\ Rejections(invoked) # <<>>)
    => /\ ld.outcome.kind = "rejectedList"
       /\ ld.outcome.errors = Rejections(invoked)

\* C5: a load in which a helper succeeds with an Asset after earlier helpers
\* rejected resolves with that Asset; the recorded errors are not surfaced.
C5_SuccessSuppressesErrors ==
    \A i \in DOMAIN invoked :
        (LoadDone /\ invoked[i].ret.kind = "resolved")
        => /\ ld.outcome.kind = "asset"
           /\ ld.outcome.asset = invoked[i].ret.asset

\* a load resolved with a helper's Asset after two recorded rejections
C5_Witness ==
    /\ LoadDone
    /\ Len(ld.errors) >= 2
    /\ ld.outcome.kind = "asset"
    /\ ld.outcome.asset.data = HelperBytes

\* the capability a store request needs: create for an empty / absent
\* assetId, update otherwise
HasCapability(s, assetId) == IF assetId = NoId THEN s.create ELSE s.update

\* the records a store request may select, in registration order
Capable(assetType, assetId) ==
    SelectSeq(stores, LAMBDA s : assetType \in s.types /\ HasCapability(s, assetId))

\* a step that is a call of ScratchStorage.store
StoreCalled == st.pc \in {"idle", "done"} /\ st'.pc # "idle" /\ stores' = stores

\* C6: store selects the first record, in registration order, whose types
\* contain the asset type and which has the create capability (empty assetId)
\* or the update capability (otherwise); a create request never selects a
\* record without create capability; with no such record it rejects with
\* 'no appropriate store' and issues no backend write.
C6_SelectsByCapability ==
    [][ StoreCalled =>
          LET capable == Capable(st'.assetType, st'.assetId)
          IN  IF capable = <<>>
              THEN /\ st'.selected = <<>>
                   /\ st'.uploads = 0
                   /\ st'.pending = Pending("rejected", NoId, NoAppropriateStores)
              ELSE st'.selected = <<Head(capable)>> ]_vars

\* C7: once store has resolved with metadata carrying id I, get(I) returns
\* an Asset whose payload is the stored data.
C7_StoredDataIsCached ==
    st.outcome.kind = "resolved"
    => /\ get(st.outcome.id) # NoAsset
       /\ get(st.outcome.id).data = st.data

\* store resolved with metadata whose id is not the request's assetId
C7_Witness ==
    /\ st.outcome.kind = "resolved"
    /\ st.assetId # NoId
    /\ st.outcome.id # st.assetId
    /\ st.data = "d2"

\* the latest load got its Asset from a helper other than the built-in one
LoadedFromOtherHelper ==
    /\ LoadDone
    /\ ld.outcome.kind = "asset"
    /\ invoked[Len(invoked)].helper # builtinHelper

\* C8: after a load resolved with an Asset obtained from the remote helper,
\* get(id) returns that same Asset from the built-in cache (so a repeated
\* load needs no remote byte fetch): an Asset the load resolved with from a
\* helper other than the built-in one is in the cache, and bytes the remote
\* helper's fetch obtained are the payload of the resolved and cached Asset.
C8_LoadedAssetIsCached ==
    /\ LoadedFromOtherHelper => get(ld.assetId) = ld.outcome.asset
    /\ (LoadDone /\ fb.state = "got")
       => /\ ld.outcome.kind = "asset"
          /\ ld.outcome.asset.data = fb.data
          /\ get(ld.assetId) = ld.outcome.asset

\* C9: whenever the remote helper's store resolved with metadata,
\* ScratchStorage.store resolves with that metadata, even if the built-in
\* cache write throws.
C9_CacheFailureNotPropagated ==
    (st.pc = "done" /\ st.pending.kind = "resolved")
    => st.outcome = Pending("resolved", st.pending.id, NoArg)

\* C10: for the Project asset type neither the remote helper's load nor its
\* store issues a backend call (getBytes, uploadBytes).
C10_ProjectNoBackendCall ==
    /\ ld.assetType = "Project" => fb.fetched = <<>>
    /\ st.assetType = "Project" => st.uploads = 0

\* a Project load reached the remote helper while a store for Project was
\* registered
C10_Witness ==
    /\ LoadDone
    /\ ld.assetType = "Project"
    /\ RemoteConsulted
    /\ Len(fb.stores) > 0

\* a Project store request found an appropriate store
C10_WitnessStore ==
    /\ st.pc = "done"
    /\ st.assetType = "Project"
    /\ st.selected # <<>>

\* what the remote helper's load returned to the latest load
RemoteRet ==
    (CHOOSE e \in {invoked[i] : i \in DOMAIN invoked} : e.helper = firebaseHelper).ret

\* the remote helper's walk over its candidate stores is over
RemoteWalkOver == RemoteConsulted /\ fb.state \in {"got", "ended"}

\* C11: with several stores registered for the type, the remote helper's
\* load tries them in registration order; when an earlier store answers
\* not-found and a later one bytes, load resolves with an Asset carrying the
\* later store's bytes and the not-found is not recorded as an error.
C11_LaterStoreBytesResolve ==
    ( /\ RemoteWalkOver
      /\ ld.assetType # "Project"
      /\ Len(fb.stores) >= 2
      /\ fb.stores[1].storageReference = NotFound
      /\ fb.stores[2].storageReference \in Bytes )
    => /\ fb.fetched = SubSeq(fb.stores, 1, 2)
       /\ fb.errors = <<>>
       /\ RemoteRet.kind = "resolved"
       /\ RemoteRet.asset.data = fb.stores[2].storageReference
       /\ LoadDone => /\ ld.outcome.kind = "asset"
                      /\ ld.outcome.asset.data = fb.stores[2].storageReference

\* C12: the outcome of every load is one of: resolved with an Asset,
\* resolved with null, rejected with the ordered list of recorded errors; it
\* never throws synchronously and never rejects with anything else.
C12_LoadOutcomeKinds ==
    LoadDone => ld.outcome.kind \in {"asset", "null", "rejectedList"}

\* the transport's promise of a request with the given method has settled
FetchSettled(method) == ft.pc = "settled" /\ ft.method = method

\* get: null on 404, a rejection with the status on any other non-2xx, the
\* body on 2xx
GetByStatus ==
    FetchSettled("get")
    => CASE ok(ft.status) -> ft.result = Fetched("resolved", ft.body, ft.status)
         [] ft.status = 404 -> ft.result = Fetched("resolved", NoBody, ft.status)
         [] OTHER -> ft.result.kind = "rejected" /\ ft.result.status = ft.status

C14_NullAdvancesToNextHelper ==
    \A i \in DOMAIN invoked :
        (LoadDone /\ invoked[i].ret = ResolvedNull /\ i < Len(ld.helpers))
        => /\ Len(invoked) > i
           /\ invoked[i + 1].ret.kind = "resolved"
              => /\ ld.outcome.kind = "asset"
                 /\ ld.outcome.asset = invoked[i + 1].ret.asset

\* C15: the remote helper with no registered store for the requested type
\* returns the sentinel, not a promise, and the load records no error for it.
C15_NoStoreReturnsSentinel ==
    (RemoteConsulted /\ Len(fb.stores) = 0)
    => /\ RemoteRet = Sentinel
       /\ \A k \in DOMAIN ld.errors : ld.errors[k].kind # "list"

\* the candidate stores whose byte fetch fails with a transport error
ErroringStores ==
    SelectSeq(fb.stores, LAMBDA s : s.storageReference = TransportError)

\* C16: a remote helper that has walked all its candidate stores, none of
\* which answered bytes, has tried every store in order, has recorded one
\* error per store whose fetch failed, and its promise rejects with that list
\* when it is not empty and resolves with null when it is.
C16_ExhaustionRejectsOrResolvesNull ==
    ( /\ RemoteWalkOver
      /\ ld.assetType # "Project"
      /\ Len(fb.stores) > 0
      /\ \A k \in DOMAIN fb.stores : fb.stores[k].storageReference \notin Bytes )
    => /\ fb.fetched = fb.stores
       /\ Len(fb.errors) = Len(ErroringStores)
       /\ RemoteRet = IF Len(ErroringStores) > 0
                      THEN Rejected(ListReason(fb.errors))
                      ELSE ResolvedNull

\* C17: at most one attempt of a load is in flight at a time (a helper's
\* pending promise or a store's pending byte fetch), and the load's result is
\* not delivered while an attempt is still in flight.
C17_OneAttemptInFlight ==
    /\ ~(ld.pc = "wait" /\ fb.state = "fetching")
    /\ ~(LoadDone /\ fb.state = "fetching")

\* the helper list holds the two default helpers at their priorities and
\* one entry for each addHelper call made, in non-increasing priority order
SortedWithDefaults ==
    /\ \A i, j \in DOMAIN helpers : i < j => helpers[i].priority >= helpers[j].priority
    /\ Len(helpers) = 2 + nAdded
    /\ \E i \in DOMAIN helpers : helpers[i] = [helper |-> builtinHelper, priority |-> 100]
    /\ \E i \in DOMAIN helpers : helpers[i] = [helper |-> firebaseHelper, priority |-> -100]
    /\ \A k \in 1..nAdded :
          Cardinality({i \in DOMAIN helpers :
                          helpers[i].helper.name = "custom" /\ helpers[i].helper.id = k}) = 1

\* an addHelper call adds one entry for its helper, at the priority given or
\* at 0 when none is given, and keeps every entry the list had
AddsOneEntry ==
    \A beh \in Behaviours, priority \in PriorityArguments :
        addHelper(beh, priority)
        => LET e == [helper |-> CustomHelper(nAdded + 1, beh),
                     priority |-> IF priority = <<>> THEN 0 ELSE priority[1]]
           IN  /\ \E i \in DOMAIN helpers' : helpers'[i] = e
               /\ \A i \in DOMAIN helpers : \E j \in DOMAIN helpers' : helpers'[j] = helpers[i]

\* C18: after any addHelper calls the helper list is sorted in non-increasing
\* priority order and holds the two default entries (built-in at 100, remote
\* at -100) plus exactly one entry per call; a call without a priority
\* inserts at priority 0.
C18_SortedOneEntryPerCall == [](SortedWithDefaults) /\ [][AddsOneEntry]_vars

\* two addHelper calls made, one without a priority and one above the
\* built-in helper
C18_Witness ==
    /\ nAdded = 2
    /\ helpers[1].priority = 200
    /\ helpers[3].priority = 0
    /\ helpers[3].helper.name = "custom"

\* the remote helper's store promise of the latest store call rejected
RemoteStoreRejected == st.pending.kind = "rejected"

\* a store call whose remote store rejected has rejected with the same reason
\* after at most the one backend write (none when no store was appropriate)
RejectsWithSameError ==
    (st.pc = "done" /\ RemoteStoreRejected)
    => /\ st.outcome = Pending("rejected", NoId, st.pending.reason)
       /\ st.pending.reason \in {NoAppropriateStores, UploadError}
       /\ st.uploads = IF st.pending.reason = UploadError THEN 1 ELSE 0

\* C19: when the remote helper's store rejects (no appropriate store, or the
\* backend write fails), storage.store rejects with that same error, makes
\* no second write attempt, and no step of the call changes the built-in
\* cache.
C19_RejectedStoreLeavesCache ==
    /\ [](RejectsWithSameError)
    /\ [][RemoteStoreRejected' => (assets' = assets /\ st'.uploads <= 1)]_vars

\* a store call rejected with the backend's write error while the built-in
\* cache holds an earlier store's data
C19_Witness ==
    /\ st.pc = "done"
    /\ st.pending.reason = UploadError
    /\ st.outcome.kind = "rejected"
    /\ \E i \in AssetIds : assets[i] # NoAsset

\* a step of the load in progress, not the start of a new load
SameLoad == ld.pc # "idle" /\ ~(ld.pc = "done" /\ ld'.pc = "run")

\* the stores registered when the latest load was called that declare its type
StoresAtLoadStart ==
    SelectSeq(SubSeq(stores, 1, ld.nStores), LAMBDA s : ld.assetType \in s.types)

\* a load queries the helpers of its snapshot, in the snapshot's order, and
\* the remote helper queries its candidate stores in their order
QueriesSnapshotInOrder ==
    /\ \A i \in DOMAIN invoked : invoked[i].helper = ld.helpers[i]
    /\ RemoteConsulted => fb.fetched = SubSeq(fb.stores, 1, Len(fb.fetched))

\* load takes its snapshot of the helper list when it is called, and no
\* later step of that load changes it
HelperSnapshotAtStart ==
    /\ (ld.pc # "run" /\ ld'.pc = "run" /\ ld'.helperIndex = 1)
       => ld'.helpers = [i \in 1..Len(helpers) |-> helpers[i].helper]
    /\ SameLoad => ld'.helpers = ld.helpers

\* C20 (as stated): a load works on the snapshot of the helper list, and the
\* remote helper on the snapshot of its store list, taken when the load
\* starts; an addHelper or addStore interleaving with the load changes
\* neither the helpers and stores it queries nor their order.
C20_SnapshotsAtLoadStart ==
    /\ [](QueriesSnapshotInOrder)
    /\ [][HelperSnapshotAtStart]_vars
    /\ [](RemoteConsulted => fb.stores = StoresAtLoadStart)

\* C20 (amended): a load works on the snapshot of the helper list taken when
\* the load starts; the remote helper works on the snapshot of its store
\* list taken when that load invokes it. An interleaving addHelper, and an
\* addStore after the remote helper was invoked, change neither what the
\* load queries nor the order.
C20_SnapshotsAtInvocation ==
    /\ [](QueriesSnapshotInOrder)
    /\ [][HelperSnapshotAtStart]_vars
    /\ [][(~RemoteConsulted /\ RemoteConsulted')
          => fb'.stores = SelectSeq(stores, LAMBDA s : ld.assetType \in s.types)]_vars
    /\ [][(RemoteConsulted /\ SameLoad) => fb'.stores = fb.stores]_vars

\* a load that invoked the remote helper after an added helper's promise had
\* rejected; a store registered while that promise was pending is among the
\* remote helper's candidates
C20_Witness ==
    /\ RemoteConsulted
    /\ Len(invoked) = 3
    /\ Len(stores) > ld.nStores
    /\ Len(fb.stores) = 1
    /\ fb.stores # StoresAtLoadStart

====
